---- MODULE Spec2Model ----
(***************************************************************************)
(* relay-gasless-examples: the status pollers, the BatchExecutor contract,  *)
(* the command line and browser flows, and the useRelayExecute hook.       *)
(*                                                                         *)
(* Three instances of pollStatus exist in the repository:                  *)
(*   "origin"  origin-subsidy/src/relay/status-poller.ts                   *)
(*   "byo"     byo-eoa-permit/lib/relay.ts                                 *)
(*   "script"  relay.ts of the command line examples (unnamed/part_006)    *)
(* A poller is an async function: it runs to completion between awaits,    *)
(* so each action below is one continuation (invocation up to the first    *)
(* await, settlement of the awaited status request up to the next await,   *)
(* expiry of the sleep timer up to the next await).                        *)
(***************************************************************************)
EXTENDS Integers, Sequences, FiniteSets, TLC

\* ------------------------------------------------------------------ bounds
\* largest maxAttempts argument tried for a single poller
MaxAttempts == 3
\* largest maxAttempts argument tried when two pollers run concurrently
ConcMaxAttempts == 2
\* BatchExecutor: largest nonce a transaction names, latest block time, and
\* how deep a batch may call back into executeBatch
MaxNonce == 1
MaxTime == 2
MaxDepth == 1
\* OriginSub4337: clicks on the run button and changes of the connected
\* account
MaxRuns == 2
MaxSwitches == 1
\* OriginSub4337: most calls one quote carries
MaxCalls == 1
\* useRelayExecute: steps of a quote, items of a step, executions in a row
MaxSteps == 2
MaxItems == 2
MaxExecutions == 2

\* --------------------------------------------------------- program values
Pollers == {1, 2}
Kinds == {"origin", "byo", "script"}
\* pollers that take (requestId, onUpdate, maxAttempts, intervalMs)
ParamKinds == {"origin", "byo"}

\* attempt count hard-coded in the script poller's for loop
ScriptAttempts == 60
\* delay hard-coded in the script poller's setTimeout
ScriptIntervalMs == 5000
\* default intervalMs of the two parameterised pollers
OriginIntervalMs == 5000
ByoIntervalMs == 3000
Intervals == {ByoIntervalMs, OriginIntervalMs}

RequestIds == {"req-a", "req-b"}

\* value of a missing JSON property
Undefined == "undefined"
\* status values of the status endpoint: the terminal ones, both spellings
\* of the refund status, and "pending" for the values no instance tests
\* (waiting, pending, submitted, delayed)
Statuses == {"pending", "success", "failure", "refund", "refunded"}
HttpErrorCodes == {404, 500}

\* A settled status request: kind "ok" is a 2xx response, "http" a non-OK
\* response, "neterr" a rejected fetch.  json tells whether the body parses.
OkResponses ==
    [kind : {"ok"}, code : {200}, json : {TRUE}, status : Statuses]
      \cup [kind : {"ok"}, code : {200}, json : {FALSE}, status : {Undefined}]
HttpErrorResponses ==
    [kind : {"http"}, code : HttpErrorCodes, json : BOOLEAN, status : {Undefined}]
NetworkFailures ==
    [kind : {"neterr"}, code : {0}, json : {FALSE}, status : {Undefined}]
Responses == OkResponses \cup HttpErrorResponses \cup NetworkFailures

NoResponse == [kind |-> "none", code |-> 0, json |-> FALSE, status |-> "none"]
\* what `return;` delivers
Void == [kind |-> "void", code |-> 0, json |-> FALSE, status |-> Undefined]
NoError == [type |-> "none", msg |-> << >>]

\* terminal sets of the three instances
TERMINAL == {"success", "failure", "refund"}
TERMINAL_STATES == {"success", "failure", "refunded"}
ScriptTerminal == {"success", "failure", "refund"}

TerminalOf(k) ==
    CASE k = "origin" -> TERMINAL
      [] k = "byo" -> TERMINAL_STATES
      [] OTHER -> ScriptTerminal

VARIABLES
    kind,          \* which pollStatus instance poller p runs
    requestId,     \* its requestId argument
    maxAttempts,   \* its maxAttempts argument (ScriptAttempts for the script)
    intervalMs,    \* its intervalMs argument (ScriptIntervalMs for the script)
    hasOnUpdate,   \* whether an onUpdate callback was passed
    pc,            \* "absent", "idle", "fetch", "sleep", "returned", "thrown"
    i,             \* the for loop's counter
    status,        \* the response of the latest settled status request
    fetches,       \* status requests issued so far
    fetchedIds,    \* request ids the status requests were issued for
    prior,         \* status values of the settled requests before the latest
    cbLog,         \* statuses the onUpdate callback was invoked with
    cbThrew,       \* whether an onUpdate call has thrown
    sleeps,        \* timers started so far
    sleepReq,      \* the delays those timers were started with
    result,        \* value pollStatus returned
    error          \* error pollStatus threw

pollVars == <<kind, requestId, maxAttempts, intervalMs, hasOnUpdate, pc, i, status,
              fetches, fetchedIds, prior, cbLog, cbThrew, sleeps, sleepReq, result,
              error>>

VARIABLES
    nonces,         \* BatchExecutor: nonces[address(this)] of each delegated EOA
    blockTimestamp, \* block.timestamp
    tx,             \* the latest executeBatch transaction and its outcome
    executed        \* per account and nonce, completed runs of a batch's calls

batchVars == <<nonces, blockTimestamp, tx, executed>>

VARIABLES
    prog,       \* which program runs: a script or the OriginSub4337 component
    cfg,        \* process.env of a script
    fpc,        \* position of main / runFlow
    loc,        \* their local variables
    effects,    \* requests, signatures and transactions issued so far, in order
    body,       \* the /execute request body once it is built
    ui          \* OriginSub4337: component state, connected account, chain

flowVars == <<prog, cfg, fpc, loc, effects, body, ui>>

VARIABLES
    state,      \* useRelayExecute: the ExecutionState held by useState
    exec,       \* locals and position of the running execute(quote)
    lastOp      \* the latest wallet, RPC or Relay operation execute started

execVars == <<state, exec, lastOp>>

\* state of the sub-models a poller never touches
others == <<batchVars, flowVars, execVars>>

vars == <<pollVars, others>>

params == <<kind, requestId, maxAttempts, intervalMs, hasOnUpdate>>

Range(s) == {s[n] : n \in DOMAIN s}

(***************************************************************************)
(* BatchExecutor.sol: values.  Accounts are EOAs whose code is delegated   *)
(* to BatchExecutor, so address(this) is the account itself.               *)
(***************************************************************************)
Accounts == {"alice"}
\* whoever holds a private key, and whoever submits the transaction
Keys == {"alice", "mallory"}
Senders == {"relayer", "alice"}
OtherContract == "bob"
ThisChain == "base"
OtherChain == "optimism"
SigLength == 65
NoAddress == "0x0"
\* what a call of the batch does: succeed, revert, or hand the same signed
\* batch back to executeBatch through a contract that ignores the outcome
Batches == {<<"ok">>, <<"ok", "fail">>, <<"replay", "ok">>}

NoTx ==
    [acct |-> NoAddress, calls |-> << >>, nonce |-> 0, deadline |-> 0,
     sig |-> [signer |-> NoAddress, digest |-> << >>, len |-> 0],
     sender |-> NoAddress, time |-> 0, before |-> 0, status |-> "none",
     runs |-> 0]

BatchIdle ==
    /\ nonces = [a \in Accounts |-> 0]
    /\ blockTimestamp = 0
    /\ tx = NoTx
    /\ executed = [a \in Accounts |-> [n \in 0..MaxNonce |-> 0]]

(***************************************************************************)
(* The flows: values.                                                      *)
(***************************************************************************)
\* what process.env.DRY_RUN can hold
DryRunEnv == {"unset", "true", "1"}
NoCfg == [dryRunEnv |-> "unset", apiKey |-> FALSE, privateKey |-> FALSE]
\* `detected` records whether a getCode of this very EOA (or a flow of this
\* EOA that ended in success) found it delegated to Calibur; `calls` is the
\* length of the calls array, `got` the awaited results the run holds, and
\* `failed` the step whose throw ended the run
NoLoc == [address |-> NoAddress, delegated |-> FALSE, detected |-> FALSE,
          authorization |-> FALSE, requestId |-> Undefined,
          calls |-> 0, got |-> {}, failed |-> "none"]
NoBody == [built |-> FALSE, authorizationList |-> FALSE,
           subsidizeFees |-> FALSE, requestId |-> Undefined]
\* code found at an EOA: none, the EIP-7702 designator of Calibur, or of
\* another contract
Codes == {"0x", "calibur", "other"}
EOAs == {"eoa-a", "eoa-b"}
NoUi == [address |-> NoAddress, delegation |-> "checking",
         detectedFor |-> NoAddress, pending |-> NoAddress, running |-> FALSE,
         runs |-> 0, switches |-> 0, code |-> [a \in EOAs |-> "0x"]]

FlowIdle ==
    /\ prog = "none"
    /\ cfg = NoCfg
    /\ fpc = "none"
    /\ loc = NoLoc
    /\ effects = << >>
    /\ body = NoBody
    /\ ui = NoUi

(***************************************************************************)
(* useRelayExecute: values.                                                *)
(***************************************************************************)
Null == << >>
\* fillStatus is not kept here: it is the last status handed to the
\* onUpdate callback of the poller, null before
INITIAL_STATE == [status |-> "idle", steps |-> << >>, error |-> Null]
NoItem == [status |-> "incomplete", sign |-> FALSE, hasPost |-> FALSE,
           postRid |-> Undefined, chainId |-> FALSE]
NoExec == [pc |-> "none", run |-> 0, n |-> 0, si |-> 0, kind |-> "none",
           stepRid |-> Undefined, nItems |-> 0, ii |-> 0, item |-> NoItem,
           requestId |-> Undefined, publicClient |-> FALSE]
NoOp == [op |-> "none", si |-> 0 - 1, ii |-> 0 - 1]

ExecIdle ==
    /\ state = INITIAL_STATE
    /\ exec = NoExec
    /\ lastOp = NoOp

OthersIdle ==
    /\ BatchIdle
    /\ FlowIdle
    /\ ExecIdle

\* ----------------------------------------------------------- error values
\* a timeout message without the count
TimeoutErrorNoCount(k, n) == [type |-> "timeout", msg |-> <<"Timed out">>]

\* `Timed out after ${maxAttempts} attempts` and its siblings
TimeoutError(k, n) ==
    CASE k = "origin" ->
           [type |-> "timeout", msg |-> <<"Timed out after ", ToString(n), " attempts">>]
      [] k = "byo" ->
           [type |-> "timeout", msg |-> <<"Polling timed out after ", ToString(n), " attempts">>]
      [] OTHER ->
           [type |-> "timeout", msg |-> <<"Polling timed out">>]

\* JSON.stringify(await res.json().catch(() => ({})))
ErrorBody(resp) == IF resp.json THEN "{\"message\":\"...\"}" ELSE "{}"

\* `Status check failed (${res.status}): ${JSON.stringify(err)}`
StatusCheckError(resp) ==
    [type |-> "http",
     msg |-> <<"Status check failed (", ToString(resp.code), "): ", ErrorBody(resp)>>]

\* `Relay failed: ${status.status}`
RelayFailedError(s) == [type |-> "relay", msg |-> <<"Relay failed: ", s>>]

NetworkError == [type |-> "network", msg |-> <<"fetch failed">>]
SyntaxError == [type |-> "syntax", msg |-> <<"Unexpected token">>]
\* whatever the caller's onUpdate throws
CallbackError == [type |-> "callback", msg |-> <<"onUpdate threw">>]

\* --------------------------------------------------------------- getStatus
\* getStatus rejects when fetch rejects, when the response is not OK, and
\* when the body of an OK response does not parse.
GetStatusThrows(resp) == resp.kind # "ok" \/ ~resp.json

GetStatusError(resp) ==
    CASE resp.kind = "neterr" -> NetworkError
      [] resp.kind = "http" -> StatusCheckError(resp)
      [] OTHER -> SyntaxError

\* The script poller calls fetch and res.json() itself and never looks at
\* res.ok: only a rejected fetch or an unparsable body throws.
ScriptFetchThrows(resp) == resp.kind = "neterr" \/ ~resp.json

ScriptFetchError(resp) ==
    IF resp.kind = "neterr" THEN NetworkError ELSE SyntaxError

\* -------------------------------------------------------------- pollStatus
\* off-by-one loop test `i <= maxAttempts`
LoopContinuesInclusive(p, n) == n <= maxAttempts[p]

\* the for loop's test `i < maxAttempts`
LoopContinues(p, n) == n < maxAttempts[p]

\* a terminal test that knows success only
IsTerminalSuccessOnly(k, s) == s = "success"

\* `TERMINAL.has(status.status)` / `TERMINAL_STATES.has(status.status)`
IsTerminal(k, s) == s \in TerminalOf(k)

\* linear backoff `intervalMs * (i + 1)`
SleepDelayBackoff(p, n) == intervalMs[p] * (n + 1)

\* the delay handed to setTimeout before attempt n + 2
SleepDelay(p, n) == intervalMs[p]

\* the callback moved behind the terminal test
CallsOnUpdateNonTerminal(p, resp) ==
    hasOnUpdate[p] /\ resp.status \notin TerminalOf(kind[p])

\* `onUpdate?.(status)`: the callback runs when one was passed
CallsOnUpdate(p, resp) == hasOnUpdate[p]

\* the callback wrapped in try {} catch {}
OnUpdateSwallowed(p, resp, cbThrows) == FALSE

\* `onUpdate?.(status)` sits in no try block: what the callback throws
\* leaves pollStatus
OnUpdateRejects(p, resp, cbThrows) == CallsOnUpdate(p, resp) /\ cbThrows

\* the status values of the requests settled before the one now awaited
PriorNow(p) ==
    IF status[p] = NoResponse THEN prior[p] ELSE prior[p] \cup {status[p].status}

\* the loop counter kept in one module-level variable
LoopHeadSharedCounter(p, n) ==
    /\ i' = [q \in Pollers |-> n]
    /\ IF LoopContinues(p, n)
         THEN /\ pc' = [pc EXCEPT ![p] = "fetch"]
              /\ fetches' = [fetches EXCEPT ![p] = @ + 1]
              /\ fetchedIds' = [fetchedIds EXCEPT ![p] = @ \cup {requestId[p]}]
              /\ error' = error
         ELSE /\ pc' = [pc EXCEPT ![p] = "thrown"]
              /\ error' = [error EXCEPT ![p] = TimeoutError(kind[p], maxAttempts[p])]
              /\ UNCHANGED <<fetches, fetchedIds>>

\* Top of the for loop with counter value n: either the next status request
\* is issued (the code runs on to `await getStatus(requestId)`) or the loop
\* is left and the timeout error is thrown.
LoopHead(p, n) ==
    /\ i' = [i EXCEPT ![p] = n]
    /\ IF LoopContinues(p, n)
         THEN /\ pc' = [pc EXCEPT ![p] = "fetch"]
              /\ fetches' = [fetches EXCEPT ![p] = @ + 1]
              /\ fetchedIds' = [fetchedIds EXCEPT ![p] = @ \cup {requestId[p]}]
              /\ error' = error
         ELSE /\ pc' = [pc EXCEPT ![p] = "thrown"]
              /\ error' = [error EXCEPT ![p] = TimeoutError(kind[p], maxAttempts[p])]
              /\ UNCHANGED <<fetches, fetchedIds>>

\* pollStatus(requestId, onUpdate, maxAttempts, intervalMs) is called.
Invoke(p) ==
    /\ pc[p] = "idle"
    /\ LoopHead(p, 0)
    /\ UNCHANGED <<params, status, prior, cbLog, cbThrew, sleeps, sleepReq, result>>
    /\ UNCHANGED others

\* The awaited getStatus of an origin-subsidy or byo-eoa-permit poller
\* settles with resp; cbThrows tells whether onUpdate throws this time.
PollSettle(p, resp, cbThrows) ==
    /\ pc[p] = "fetch"
    /\ kind[p] \in ParamKinds
    /\ prior' = [prior EXCEPT ![p] = PriorNow(p)]
    /\ status' = [status EXCEPT ![p] = resp]
    /\ IF GetStatusThrows(resp)
         THEN /\ pc' = [pc EXCEPT ![p] = "thrown"]
              /\ error' = [error EXCEPT ![p] = GetStatusError(resp)]
              /\ UNCHANGED <<cbLog, cbThrew, sleeps, sleepReq, result>>
         ELSE /\ cbLog' = [cbLog EXCEPT ![p] =
                            IF CallsOnUpdate(p, resp) THEN Append(@, resp.status) ELSE @]
              /\ cbThrew' = [cbThrew EXCEPT ![p] = CallsOnUpdate(p, resp) /\ cbThrows]
              /\ IF OnUpdateRejects(p, resp, cbThrows)
                   THEN /\ pc' = [pc EXCEPT ![p] = "thrown"]
                        /\ error' = [error EXCEPT ![p] = CallbackError]
                        /\ UNCHANGED <<sleeps, sleepReq, result>>
                   ELSE IF IsTerminal(kind[p], resp.status)
                          THEN /\ pc' = [pc EXCEPT ![p] = "returned"]
                               /\ result' = [result EXCEPT ![p] = resp]
                               /\ UNCHANGED <<sleeps, sleepReq, error>>
                          ELSE /\ pc' = [pc EXCEPT ![p] = "sleep"]
                               /\ sleeps' = [sleeps EXCEPT ![p] = @ + 1]
                               /\ sleepReq' = [sleepReq EXCEPT ![p] =
                                                 @ \cup {SleepDelay(p, i[p])}]
                               /\ UNCHANGED <<result, error>>
    /\ UNCHANGED <<params, i, fetches, fetchedIds>>
    /\ UNCHANGED others

\* the script poller throwing on failure only
ScriptThrowsOnFailureOnly(s) == s = "failure"

\* what the script poller does with a parsed body whose status is s
ScriptThrowsOn(s) == s = "failure" \/ s = "refund"
ScriptReturnsOn(s) == s = "success"

\* The awaited fetch / res.json() of the script poller settles with resp.
ScriptSettle(p, resp) ==
    /\ pc[p] = "fetch"
    /\ kind[p] = "script"
    /\ prior' = [prior EXCEPT ![p] = PriorNow(p)]
    /\ status' = [status EXCEPT ![p] = resp]
    /\ IF ScriptFetchThrows(resp)
         THEN /\ pc' = [pc EXCEPT ![p] = "thrown"]
              /\ error' = [error EXCEPT ![p] = ScriptFetchError(resp)]
              /\ UNCHANGED <<sleeps, sleepReq, result>>
         ELSE IF ScriptReturnsOn(resp.status)
                THEN /\ pc' = [pc EXCEPT ![p] = "returned"]
                     /\ result' = [result EXCEPT ![p] = Void]
                     /\ UNCHANGED <<sleeps, sleepReq, error>>
                ELSE IF ScriptThrowsOn(resp.status)
                       THEN /\ pc' = [pc EXCEPT ![p] = "thrown"]
                            /\ error' = [error EXCEPT ![p] = RelayFailedError(resp.status)]
                            /\ UNCHANGED <<sleeps, sleepReq, result>>
                       ELSE /\ pc' = [pc EXCEPT ![p] = "sleep"]
                            /\ sleeps' = [sleeps EXCEPT ![p] = @ + 1]
                            /\ sleepReq' = [sleepReq EXCEPT ![p] =
                                              @ \cup {SleepDelay(p, i[p])}]
                            /\ UNCHANGED <<result, error>>
    /\ UNCHANGED <<params, i, fetches, fetchedIds, cbLog, cbThrew>>
    /\ UNCHANGED others

\* The sleep timer expires: i++ and back to the top of the loop.
TimerFires(p) ==
    /\ pc[p] = "sleep"
    /\ LoopHead(p, i[p] + 1)
    /\ UNCHANGED <<params, status, prior, cbLog, cbThrew, sleeps, sleepReq, result>>
    /\ UNCHANGED others

\* ------------------------------------------------------------ specifications
Fresh(f) == [p \in Pollers |-> f]

InitRun ==
    /\ i = Fresh(0)
    /\ status = Fresh(NoResponse)
    /\ fetches = Fresh(0)
    /\ fetchedIds = Fresh({})
    /\ prior = Fresh({})
    /\ cbLog = Fresh(<< >>)
    /\ cbThrew = Fresh(FALSE)
    /\ sleeps = Fresh(0)
    /\ sleepReq = Fresh({})
    /\ result = Fresh(NoResponse)
    /\ error = Fresh(NoError)

\* arguments a caller can pass to the poller of kind k
ArgsOk(k, n, ms, cb, bound) ==
    IF k = "script"
      THEN n = ScriptAttempts /\ ms = ScriptIntervalMs /\ cb = FALSE
      ELSE n \in 0..bound /\ ms \in Intervals

\* One pollStatus invocation (poller 1); poller 2 does not exist.
Init ==
    /\ \E k \in Kinds, n \in 0..ScriptAttempts, ms \in Intervals, cb \in BOOLEAN,
          r \in RequestIds :
         /\ ArgsOk(k, n, ms, cb, MaxAttempts)
         /\ kind = (1 :> k) @@ (2 :> k)
         /\ maxAttempts = (1 :> n) @@ (2 :> n)
         /\ intervalMs = (1 :> ms) @@ (2 :> ms)
         /\ hasOnUpdate = (1 :> cb) @@ (2 :> cb)
         /\ requestId = (1 :> r) @@ (2 :> r)
    /\ pc = (1 :> "idle") @@ (2 :> "absent")
    /\ InitRun
    /\ OthersIdle

Next ==
    \E p \in Pollers :
      \/ Invoke(p)
      \/ \E resp \in Responses, cbThrows \in BOOLEAN : PollSettle(p, resp, cbThrows)
      \/ \E resp \in Responses : ScriptSettle(p, resp)
      \/ TimerFires(p)

Spec == Init /\ [][Next]_vars

\* Two origin-subsidy / byo-eoa-permit pollers started for different request
\* identifiers, their continuations interleaved by the event loop.
InitConc ==
    /\ kind \in [Pollers -> ParamKinds]
    /\ maxAttempts \in [Pollers -> 0..ConcMaxAttempts]
    /\ intervalMs \in [Pollers -> Intervals]
    /\ hasOnUpdate \in [Pollers -> BOOLEAN]
    /\ requestId = (1 :> "req-a") @@ (2 :> "req-b")
    /\ pc = Fresh("idle")
    /\ InitRun
    /\ OthersIdle

NextConc ==
    \E p \in Pollers :
      \/ Invoke(p)
      \/ \E resp \in Responses, cbThrows \in BOOLEAN : PollSettle(p, resp, cbThrows)
      \/ TimerFires(p)

SpecConc == InitConc /\ [][NextConc]_vars

\* ------------------------------------------------------------------ claims
Running == {p \in Pollers : pc[p] # "absent"}
ParamPollers == {p \in Running : kind[p] \in ParamKinds}
Ended(p) == pc[p] \in {"returned", "thrown"}

\* getStatus resolved for the latest request of p: a status was delivered
GotStatus(p) == status[p].kind = "ok" /\ status[p].json
\* that status is in the terminal set of p's instance
GotTerminal(p) == GotStatus(p) /\ status[p].status \in TerminalOf(kind[p])
\* the latest request of p made getStatus throw
RequestFailed(p) ==
    pc[p] = "thrown" /\ error[p].type \in {"http", "network", "syntax"}
\* status requests of p that have settled
Settled(p) == fetches[p] - (IF pc[p] = "fetch" THEN 1 ELSE 0)
\* status requests of p for which getStatus resolved
Completed(p) == Settled(p) - (IF RequestFailed(p) THEN 1 ELSE 0)

\* C1: an origin-subsidy or byo-eoa-permit poller returns on the first
\* terminal status: once the status held is terminal the poller has ended
\* (no sleep, no further request), it has issued exactly as many requests as
\* loop iterations were started, it returns that very response unless the
\* callback threw, and it returns only on a terminal status that no earlier
\* response carried.
C1_ReturnsOnFirstTerminal ==
    \A p \in ParamPollers :
      /\ GotTerminal(p) =>
           /\ Ended(p)
           /\ fetches[p] = i[p] + 1
           /\ fetches[p] <= maxAttempts[p]
           /\ pc[p] = "thrown" => cbThrew[p]
           /\ pc[p] = "returned" => result[p] = status[p]
      /\ pc[p] = "returned" =>
           /\ GotTerminal(p)
           /\ prior[p] \cap TerminalOf(kind[p]) = {}
           /\ Settled(p) = fetches[p]

C1_Witness ==
    \E p \in ParamPollers :
      /\ pc[p] = "returned"
      /\ fetches[p] = 3
      /\ result[p].status = "failure"
      /\ prior[p] # {}

\* C2: a poller never issues more than N requests, it times out only after
\* exactly N requests (and N sleeps) none of which delivered a terminal
\* status, an ending with fewer than N requests is due to a terminal status,
\* a failed request or a throwing callback, and leaving the loop always ends
\* in the timeout error.
C2_ExactlyNAttempts ==
    \A p \in Running :
      /\ fetches[p] <= maxAttempts[p]
      /\ error[p].type = "timeout" =>
           /\ pc[p] = "thrown"
           /\ fetches[p] = maxAttempts[p]
           /\ Settled(p) = maxAttempts[p]
           /\ sleeps[p] = maxAttempts[p]
           /\ PriorNow(p) \cap TerminalOf(kind[p]) = {}
      /\ (Ended(p) /\ error[p].type # "timeout") =>
           \/ GotTerminal(p)
           \/ RequestFailed(p)
           \/ cbThrew[p]
      /\ (Ended(p) /\ ~GotTerminal(p) /\ ~RequestFailed(p) /\ ~cbThrew[p]) =>
           error[p].type = "timeout"
      /\ (pc[p] = "sleep" \/ pc[p] = "fetch") => i[p] < maxAttempts[p]

C2_Witness ==
    \E p \in Running :
      /\ kind[p] = "script"
      /\ error[p].type = "timeout"
      /\ fetches[p] = ScriptAttempts

\* C3: when a callback was passed, it has been invoked exactly once per
\* completed status request, the latest invocation carried the latest
\* status (also when that status is the terminal one pollStatus returns),
\* and every invocation appends that attempt's status to what was reported
\* before.
C3_CallbackInv ==
    \A p \in ParamPollers :
      hasOnUpdate[p] =>
        /\ Len(cbLog[p]) = Completed(p)
        /\ (Completed(p) > 0 /\ ~RequestFailed(p)) =>
             cbLog[p][Len(cbLog[p])] = status[p].status
        /\ pc[p] = "returned" =>
             /\ Len(cbLog[p]) = fetches[p]
             /\ cbLog[p][fetches[p]] = result[p].status
        /\ \A n \in 1..(Len(cbLog[p]) - 1) : cbLog[p][n] \notin TerminalOf(kind[p])

C3_CallbackStep ==
    \A p \in ParamPollers :
      hasOnUpdate[p] =>
        \/ cbLog'[p] = cbLog[p]
        \/ /\ pc[p] = "fetch"
           /\ cbLog'[p] = Append(cbLog[p], status'[p].status)

C3_CallbackEveryAttempt == []C3_CallbackInv /\ [][C3_CallbackStep]_vars

C3_Witness ==
    \E p \in ParamPollers :
      /\ hasOnUpdate[p]
      /\ pc[p] = "returned"
      /\ Len(cbLog[p]) = 3
      /\ cbLog[p][3] = "success"

\* the latest response of p handed a parsed body to the polling loop
Delivered(p) ==
    /\ status[p].json
    /\ \/ status[p].kind = "ok"
       \/ kind[p] = "script" /\ status[p].kind = "http"

ClaimedTerminal == {"success", "failure", "refund", "refunded"}

\* C4 (as claimed): in every instance a delivered status of success,
\* failure, refund or refunded ends polling at that attempt, and any other
\* delivered status does not end it.
C4_Claim_TerminalSetEverywhere ==
    \A p \in Running :
      Delivered(p) =>
        /\ status[p].status \in ClaimedTerminal => Ended(p)
        /\ status[p].status \notin ClaimedTerminal =>
             /\ pc[p] # "returned"
             /\ pc[p] = "thrown" => (cbThrew[p] \/ error[p].type = "timeout")

\* C5 (as claimed): in every instance a terminal failure or refund is the
\* poller's return value and not a thrown error, and a poller whose status
\* requests all delivered a status (and whose callback did not throw) fails
\* only by exhausting the attempt count.
C5_Claim_FailureReturned ==
    \A p \in Running :
      /\ (Delivered(p) /\ ~cbThrew[p]
            /\ status[p].status \in TerminalOf(kind[p]) \ {"success"}) =>
           (pc[p] = "returned" /\ result[p] = status[p])
      /\ (pc[p] = "thrown" /\ Delivered(p) /\ ~cbThrew[p]) =>
           error[p].type = "timeout"

\* C5 (amended): an origin-subsidy or byo-eoa-permit poller returns a status
\* of its terminal set (failure and its refund value included) as its value
\* unless the callback threw; the script poller throws `Relay failed:
\* <status>` on failure or refund and returns nothing on success; a poller
\* throws only on exhaustion, a failed status request, a throwing callback
\* or (script) a failure or refund status.
C5_TerminalDelivery ==
    \A p \in Running :
      /\ kind[p] \in ParamKinds =>
           /\ (GotTerminal(p) /\ ~cbThrew[p]) =>
                (pc[p] = "returned" /\ result[p] = status[p] /\ error[p] = NoError)
           /\ pc[p] = "thrown" =>
                error[p].type \in {"timeout", "http", "network", "syntax", "callback"}
      /\ kind[p] = "script" =>
           /\ (Delivered(p) /\ status[p].status \in {"failure", "refund"}) =>
                /\ pc[p] = "thrown"
                /\ error[p] = RelayFailedError(status[p].status)
                /\ result[p] = NoResponse
           /\ (Delivered(p) /\ status[p].status = "success") =>
                (pc[p] = "returned" /\ result[p] = Void /\ error[p] = NoError)
           /\ pc[p] = "thrown" =>
                error[p].type \in {"timeout", "relay", "network", "syntax"}

C5_Witness ==
    \E p \in Running :
      /\ kind[p] = "script"
      /\ pc[p] = "thrown"
      /\ error[p] = RelayFailedError("refund")
      /\ fetches[p] = 2

\* C6 (as claimed): in every instance the timeout error names the attempt
\* count that was exhausted.
C6_Claim_TimeoutNamesCount ==
    \A p \in Running :
      error[p].type = "timeout" => ToString(maxAttempts[p]) \in Range(error[p].msg)

\* C6 (amended): the timeout error of an origin-subsidy or byo-eoa-permit
\* poller names the exhausted attempt count; the script poller's timeout
\* error is the fixed text "Polling timed out" without a count.
C6_TimeoutMessage ==
    \A p \in Running :
      error[p].type = "timeout" =>
        /\ kind[p] \in ParamKinds =>
             /\ Len(error[p].msg) = 3
             /\ error[p].msg[2] = ToString(fetches[p])
             /\ error[p].msg[2] = ToString(maxAttempts[p])
        /\ kind[p] = "script" => error[p].msg = <<"Polling timed out">>

C6_Witness ==
    \E p \in ParamPollers :
      /\ error[p].type = "timeout"
      /\ fetches[p] = 3
      /\ error[p].msg = <<"Polling timed out after ", "3", " attempts">>

\* C7 (as claimed): in every instance a non-OK status response makes the
\* poller throw at once an error embedding the HTTP status code, with no
\* callback for that attempt and no further attempt.
C7_Claim_NonOkThrows ==
    \A p \in Running :
      status[p].kind = "http" =>
        /\ pc[p] = "thrown"
        /\ error[p].type = "http"
        /\ ToString(status[p].code) \in Range(error[p].msg)
        /\ fetches[p] = i[p] + 1
        /\ hasOnUpdate[p] => Len(cbLog[p]) = fetches[p] - 1

\* C8: every timer is started with intervalMs, one timer was started per
\* attempt that neither ended nor failed the poller (so one sleep lies
\* between consecutive requests), and no timer is started between a
\* terminal status and the return.
C8_FixedInterval ==
    \A p \in Running :
      /\ sleepReq[p] \subseteq {intervalMs[p]}
      /\ sleeps[p] > 0 => sleepReq[p] = {intervalMs[p]}
      /\ pc[p] = "idle" => sleeps[p] = 0
      /\ pc[p] = "fetch" => sleeps[p] = fetches[p] - 1
      /\ pc[p] = "sleep" => (sleeps[p] = fetches[p] /\ ~GotTerminal(p))
      /\ pc[p] = "returned" => sleeps[p] = fetches[p] - 1
      /\ pc[p] = "thrown" =>
           sleeps[p] = IF error[p].type = "timeout" THEN fetches[p] ELSE fetches[p] - 1

C8_Witness ==
    \E p \in ParamPollers :
      /\ pc[p] = "returned"
      /\ fetches[p] = 3
      /\ sleeps[p] = 2
      /\ sleepReq[p] = {intervalMs[p]}

\* C9: when the callback throws on attempt k, pollStatus has thrown that
\* same error after exactly k requests and k callback invocations, with no
\* timer started after the k-th request and nothing returned.
C9_CallbackErrorPropagates ==
    \A p \in ParamPollers :
      cbThrew[p] =>
        /\ pc[p] = "thrown"
        /\ error[p] = CallbackError
        /\ fetches[p] = i[p] + 1
        /\ Len(cbLog[p]) = fetches[p]
        /\ sleeps[p] = fetches[p] - 1
        /\ result[p] = NoResponse

C9_Witness ==
    \E p \in ParamPollers :
      /\ cbThrew[p]
      /\ fetches[p] = 2
      /\ pc[p] = "thrown"

\* everything the model keeps for poller p
Local(p) ==
    <<kind[p], requestId[p], maxAttempts[p], intervalMs[p], hasOnUpdate[p], pc[p],
      i[p], status[p], fetches[p], fetchedIds[p], prior[p], cbLog[p], cbThrew[p],
      sleeps[p], sleepReq[p], result[p], error[p]>>

\* a poller's requests are for its own request identifier, and its counters,
\* callback sequence and outcome are those of a poller running alone
C10_OwnRun ==
    /\ \A p \in Running :
         /\ fetchedIds[p] \subseteq {requestId[p]}
         /\ (pc[p] = "fetch" \/ pc[p] = "sleep" \/ pc[p] = "returned") =>
              fetches[p] = i[p] + 1
         /\ error[p].type = "timeout" => i[p] = maxAttempts[p]
    /\ C1_ReturnsOnFirstTerminal
    /\ C2_ExactlyNAttempts
    /\ C3_CallbackInv
    /\ C8_FixedInterval
    /\ C9_CallbackErrorPropagates

\* a step of one poller leaves everything of the other poller as it was
C10_Frame ==
    \A p, q \in Pollers :
      (p # q /\ Local(p)' # Local(p)) => Local(q)' = Local(q)

\* C10: with two pollers interleaved on different request identifiers, each
\* poller's requests, callback sequence and outcome are determined by its
\* own responses: no step of one changes anything of the other, and each
\* satisfies what holds of a poller running alone.
C10_NoSharedState == []C10_OwnRun /\ [][C10_Frame]_vars

C10_Witness ==
    /\ requestId[1] # requestId[2]
    /\ pc[1] = "returned" /\ fetches[1] = 2 /\ Len(cbLog[1]) = 2
    /\ pc[2] = "thrown" /\ error[2].type = "timeout" /\ fetches[2] = 2
    /\ i[1] # i[2]


(***************************************************************************)
(* BatchExecutor.executeBatch.  One transaction is one atomic step: a      *)
(* revert restores the storage the call found.                             *)
(***************************************************************************)
\* _computeDigest: the EIP-712 hash, injective in everything it covers
Digest(calls, nonce, deadline, chain, acct) ==
    <<calls, nonce, deadline, chain, acct>>

\* _recover's ecrecover: the key that signed, when the signature was made
\* over this digest; an address nobody holds otherwise
Recover(digest, sig) ==
    IF sig.digest = digest THEN sig.signer ELSE NoAddress

SigLengthOk(sig) == sig.len = SigLength

SignerAny(signer, acct) == TRUE
SignerOk(signer, acct) == signer = acct

ExpiredAtDeadline(now, deadline) == now >= deadline
Expired(now, deadline) == now > deadline

NextNonceKept(currentNonce) == currentNonce
NextNonce(currentNonce) == currentNonce + 1

Revert(entry, reason) == [status |-> reason, nonce |-> entry, runs |-> 0]

RECURSIVE executeBatch(_, _, _, _, _, _, _)
RECURSIVE RunCalls(_, _, _, _, _, _, _, _, _)

\* the for loop over calls, from index k, with `stored` in nonces[address(this)]
RunCalls(k, stored, runs, acct, calls, nonce, deadline, sig, depth) ==
    IF k > Len(calls)
    THEN [status |-> "ok", nonce |-> stored, runs |-> runs + 1]
    ELSE IF calls[k] = "fail"
    THEN Revert(stored, "CallFailed")
    ELSE IF calls[k] = "replay"
    THEN LET inner == IF depth = 0
                      THEN Revert(stored, "OutOfGas")
                      ELSE executeBatch(stored, acct, calls, nonce, deadline,
                                        sig, depth - 1)
         IN  RunCalls(k + 1, inner.nonce, runs + inner.runs, acct, calls,
                      nonce, deadline, sig, depth)
    ELSE RunCalls(k + 1, stored, runs, acct, calls, nonce, deadline, sig,
                  depth)

\* executeBatch on account acct whose nonces[address(this)] is currentNonce
executeBatch(currentNonce, acct, calls, nonce, deadline, sig, depth) ==
    IF Expired(blockTimestamp, deadline)
    THEN Revert(currentNonce, "Expired")
    ELSE IF nonce # currentNonce
    THEN Revert(currentNonce, "InvalidNonce")
    ELSE IF ~SigLengthOk(sig)
    THEN Revert(currentNonce, "invalid sig length")
    ELSE IF ~SignerOk(Recover(Digest(calls, nonce, deadline, ThisChain, acct),
                              sig), acct)
    THEN Revert(currentNonce, "InvalidSignature")
    ELSE LET ran == RunCalls(1, NextNonce(currentNonce), 0, acct, calls,
                             nonce, deadline, sig, depth)
         IN  IF ran.status = "ok" THEN ran
             ELSE Revert(currentNonce, ran.status)

\* signatures a submitter can present with (calls, nonce, deadline): made
\* over this batch by either key, made by the account over a batch that
\* differs in one field, or the account's signature cut short
Signatures(acct, calls, nonce, deadline) ==
    {[signer |-> s, digest |-> Digest(calls, nonce, deadline, ThisChain, acct),
      len |-> SigLength] : s \in Keys}
    \cup
    {[signer |-> acct, digest |-> d, len |-> SigLength] :
        d \in {Digest(calls, (nonce + 1) % (MaxNonce + 1), deadline,
                      ThisChain, acct),
               Digest(calls, nonce, deadline, OtherChain, acct),
               Digest(calls, nonce, deadline, ThisChain, OtherContract)}}
    \cup
    {[signer |-> acct, digest |-> Digest(calls, nonce, deadline, ThisChain, acct),
      len |-> SigLength - 1]}

\* a transaction calling executeBatch on acct
ExecuteBatchTx(acct, calls, nonce, deadline, sig, sender) ==
    /\ nonces[acct] <= MaxNonce
    /\ LET res == executeBatch(nonces[acct], acct, calls, nonce, deadline,
                               sig, MaxDepth)
       IN  /\ nonces' = [nonces EXCEPT ![acct] = res.nonce]
           /\ executed' = [executed EXCEPT ![acct][nonce] = @ + res.runs]
           /\ tx' = [acct |-> acct, calls |-> calls, nonce |-> nonce,
                     deadline |-> deadline, sig |-> sig, sender |-> sender,
                     time |-> blockTimestamp, before |-> nonces[acct],
                     status |-> res.status, runs |-> res.runs]
    /\ UNCHANGED <<blockTimestamp, pollVars, flowVars, execVars>>

\* a later block
BlockMined ==
    /\ blockTimestamp < MaxTime
    /\ blockTimestamp' = blockTimestamp + 1
    /\ UNCHANGED <<nonces, tx, executed, pollVars, flowVars, execVars>>

\* no pollStatus invocation exists
PollersAbsent ==
    /\ kind = Fresh("byo")
    /\ requestId = Fresh(Undefined)
    /\ maxAttempts = Fresh(0)
    /\ intervalMs = Fresh(ByoIntervalMs)
    /\ hasOnUpdate = Fresh(FALSE)
    /\ pc = Fresh("absent")
    /\ InitRun

InitBatch ==
    /\ PollersAbsent
    /\ OthersIdle

NextBatch ==
    \/ \E acct \in Accounts, calls \in Batches, nonce \in 0..MaxNonce,
          deadline \in 0..MaxTime, sender \in Senders :
          \E sig \in Signatures(acct, calls, nonce, deadline) :
              ExecuteBatchTx(acct, calls, nonce, deadline, sig, sender)
    \/ BlockMined

SpecBatch == InitBatch /\ [][NextBatch]_vars


\* ------------------------------------------------ BatchExecutor: claims
Submitted == tx.status # "none"

\* the signature is 65 bytes long, made by the account's key over this very
\* batch on this chain for this account
SignedByAccount ==
    tx.sig = [signer |-> tx.acct,
              digest |-> Digest(tx.calls, tx.nonce, tx.deadline, ThisChain,
                                tx.acct),
              len |-> SigLength]

\* the transaction names a nonce the account has used already
NonceUsed == Submitted /\ tx.nonce < tx.before

NoCallFails == "fail" \notin Range(tx.calls)

NothingDone == tx.runs = 0 /\ nonces[tx.acct] = tx.before

\* C12 as stated: every later executeBatch with a nonce that a successful
\* batch has used reverts with InvalidNonce.
C12_Claim_LaterIsInvalidNonce ==
    NonceUsed => tx.status = "InvalidNonce"

\* C12 amended: the calls of a batch signed for (account, nonce) run at most
\* once, exactly the nonces below the account's current nonce have run, and a
\* later executeBatch naming a used nonce executes nothing and reverts: with
\* Expired when the block timestamp is past its deadline, with InvalidNonce
\* otherwise.
C12_NoReplay ==
    /\ \A a \in Accounts, n \in 0..MaxNonce :
         /\ executed[a][n] <= 1
         /\ executed[a][n] = 1 <=> n < nonces[a]
    /\ NonceUsed =>
         /\ NothingDone
         /\ tx.status = IF tx.time > tx.deadline THEN "Expired"
                        ELSE "InvalidNonce"

\* a correctly signed batch whose nonce has already run is presented again in
\* time and is turned away
C12_Witness ==
    /\ NonceUsed
    /\ SignedByAccount
    /\ executed[tx.acct][tx.nonce] = 1
    /\ tx.time <= tx.deadline
    /\ tx.status = "InvalidNonce"

\* C13 as stated: a batch whose signature does not recover to the account
\* reverts with InvalidSignature (read with the deadline and the nonce in
\* order, so that the signature check is reached).
C13_Claim_ElseInvalidSignature ==
    (Submitted /\ tx.time <= tx.deadline /\ tx.nonce = tx.before
       /\ ~SignedByAccount)
      => tx.status = "InvalidSignature"

\* C13 amended: the calls run only under a 65-byte signature of the account
\* over (calls, nonce, deadline, chain id, account address); any other
\* signature leaves calls and nonce untouched and, once deadline and nonce
\* are in order, reverts with InvalidSignature when it is 65 bytes long and
\* with "invalid sig length" when it is not; success is decided by time,
\* nonce, signature and calls alone, whoever submits.
C13_SignatureGate ==
    /\ (Submitted /\ tx.runs > 0) => SignedByAccount
    /\ (Submitted /\ ~SignedByAccount) =>
         /\ tx.status # "ok"
         /\ NothingDone
         /\ (tx.time <= tx.deadline /\ tx.nonce = tx.before) =>
              tx.status = IF tx.sig.len = SigLength THEN "InvalidSignature"
                          ELSE "invalid sig length"
    /\ Submitted =>
         (tx.status = "ok" <=>
            /\ tx.time <= tx.deadline
            /\ tx.nonce = tx.before
            /\ SignedByAccount
            /\ NoCallFails)

\* somebody else's signature over the right batch, submitted in time with
\* the right nonce
C13_Witness ==
    /\ Submitted
    /\ tx.time <= tx.deadline /\ tx.nonce = tx.before
    /\ tx.sig.signer # tx.acct
    /\ tx.sig.digest = Digest(tx.calls, tx.nonce, tx.deadline, ThisChain,
                              tx.acct)
    /\ tx.status = "InvalidSignature"

\* C14: past the deadline executeBatch reverts with Expired before nonce and
\* signature are looked at and runs no call; at a block timestamp equal to
\* the deadline a well-formed batch still executes; Expired is raised in no
\* other case.
C14_DeadlineFirst ==
    /\ (Submitted /\ tx.time > tx.deadline) =>
         tx.status = "Expired" /\ NothingDone
    /\ (Submitted /\ tx.time = tx.deadline /\ tx.nonce = tx.before
          /\ SignedByAccount /\ NoCallFails) =>
         tx.status = "ok" /\ tx.runs = 1
    /\ (Submitted /\ tx.status = "Expired") => tx.time > tx.deadline

\* a late transaction that is wrong in nonce and signature as well
C14_Witness ==
    /\ Submitted
    /\ tx.time > tx.deadline
    /\ tx.nonce # tx.before
    /\ ~SignedByAccount
    /\ tx.status = "Expired"


(***************************************************************************)
(* The command line scripts gasless-4337.ts and gasless-swap.ts.  A step   *)
(* issues the requests of one stretch of main and takes their outcome;     *)
(* `fails` says that the last request of the step is the one that throws.  *)
(* main().catch prints the error and exits: position "failed".             *)
(***************************************************************************)
DryRunWithoutKey(c) == c.dryRunEnv = "true" /\ ~c.apiKey
DryRun(c) == c.dryRunEnv = "true"

\* the mock quote branch: no API key in a dry run
MockQuote(c) == ~c.apiKey /\ DryRun(c)

IsDelegated(code) == code = "calibur"

\* one stretch of a script: new position, locals, effects and request body
ScriptStep(pc2, loc2, eff2, body2) ==
    /\ fpc' = pc2
    /\ loc' = loc2
    /\ effects' = eff2
    /\ body' = body2
    /\ UNCHANGED <<prog, cfg, ui, pollVars, batchVars, execVars>>

\* gasless-4337.ts ------------------------------------------------------
G4337_Load ==
    /\ prog = "gasless-4337" /\ fpc = "load"
    /\ ScriptStep(IF cfg.privateKey THEN "account" ELSE "failed", loc,
                  effects, body)

\* factory getAddress and getCode of the smart account
G4337_Account(fails) ==
    /\ prog = "gasless-4337" /\ fpc = "account"
    /\ ScriptStep(IF fails THEN "failed" ELSE "funding", loc,
                  effects \o (IF fails THEN <<"rpc">> ELSE <<"rpc", "rpc">>),
                  body)

\* Step 0b: fund the smart account if needed
G4337_Funding(accountFunded, ownerFunded, fails) ==
    /\ prog = "gasless-4337" /\ fpc = "funding"
    /\ IF MockQuote(cfg)
       THEN ScriptStep("quote", loc, effects, body)
       ELSE IF accountFunded
       THEN ScriptStep(IF fails THEN "failed" ELSE "quote", loc,
                       Append(effects, "rpc"), body)
       ELSE IF ~ownerFunded
       THEN ScriptStep("failed", loc, effects \o <<"rpc", "rpc">>, body)
       ELSE IF DryRun(cfg)
       THEN ScriptStep(IF fails THEN "failed" ELSE "quote", loc,
                       effects \o <<"rpc", "rpc">>, body)
       ELSE ScriptStep(IF fails THEN "failed" ELSE "quote", loc,
                       effects \o <<"rpc", "rpc", "tx USDC transfer">>, body)

\* Step 1 and 2: the quote (mocked without a key in a dry run) and its calls
G4337_Quote(hasCalls, rid, fails) ==
    /\ prog = "gasless-4337" /\ fpc = "quote"
    /\ IF MockQuote(cfg)
       THEN ScriptStep("nonce", [loc EXCEPT !.requestId = "dry-run-request-id"],
                       effects, body)
       ELSE ScriptStep(IF fails \/ ~hasCalls THEN "failed" ELSE "nonce",
                       IF fails THEN loc ELSE [loc EXCEPT !.requestId = rid],
                       Append(effects, "POST /quote/v2"), body)

\* Step 3: getNonce, 0 when the read fails
G4337_Nonce ==
    /\ prog = "gasless-4337" /\ fpc = "nonce"
    /\ ScriptStep("sign", loc, Append(effects, "rpc"), body)

G4337_Sign ==
    /\ prog = "gasless-4337" /\ fpc = "sign"
    /\ ScriptStep("submit", loc, Append(effects, "sign userOp"), body)

\* Step 4: build the request, leave in a dry run, else POST /execute
G4337_Submit(rid, fails) ==
    /\ prog = "gasless-4337" /\ fpc = "submit"
    /\ LET executeBody == [built |-> TRUE, authorizationList |-> FALSE,
                           subsidizeFees |-> TRUE,
                           requestId |-> loc.requestId]
       IN  IF DryRun(cfg)
           THEN ScriptStep("done", loc, effects, executeBody)
           ELSE IF ~cfg.apiKey
           THEN ScriptStep("failed", loc, effects, executeBody)
           ELSE ScriptStep(IF fails THEN "failed" ELSE "poll",
                           IF fails THEN loc
                           ELSE [loc EXCEPT !.requestId = rid],
                           Append(effects, "POST /execute"), executeBody)

\* Step 5: pollStatus returns or throws
G4337_Poll(fails) ==
    /\ prog = "gasless-4337" /\ fpc = "poll"
    /\ ScriptStep(IF fails THEN "failed" ELSE "done", loc,
                  Append(effects, "GET /intents/status"), body)

\* gasless-swap.ts ------------------------------------------------------
Swap_Load ==
    /\ prog = "gasless-swap" /\ fpc = "load"
    /\ ScriptStep(IF cfg.apiKey /\ cfg.privateKey THEN "getCode" ELSE "failed",
                  loc, effects, body)

\* Step 1: is the EOA delegated to Calibur
Swap_GetCode(code, fails) ==
    /\ prog = "gasless-swap" /\ fpc = "getCode"
    /\ ScriptStep(IF fails THEN "failed" ELSE "quote",
                  IF fails THEN loc
                  ELSE [loc EXCEPT !.delegated = IsDelegated(code),
                                   !.detected = IsDelegated(code)],
                  Append(effects, "rpc"), body)

\* Step 2: the quote and its calls
Swap_Quote(hasCalls, rid, fails) ==
    /\ prog = "gasless-swap" /\ fpc = "quote"
    /\ ScriptStep(IF fails \/ ~hasCalls THEN "failed" ELSE "authorize",
                  IF fails THEN loc ELSE [loc EXCEPT !.requestId = rid],
                  Append(effects, "POST /quote"), body)

\* Step 3: sign the EIP-7702 authorization unless delegated
Swap_Authorize(fails) ==
    /\ prog = "gasless-swap" /\ fpc = "authorize"
    /\ IF loc.delegated
       THEN ScriptStep("seq", loc, effects, body)
       ELSE IF fails
       THEN ScriptStep("failed", loc, Append(effects, "rpc"), body)
       ELSE ScriptStep("seq", [loc EXCEPT !.authorization = TRUE],
                       effects \o <<"rpc", "signAuthorization">>, body)

\* Step 4: getSeq, 0 when the read fails
Swap_Seq ==
    /\ prog = "gasless-swap" /\ fpc = "seq"
    /\ ScriptStep("sign", loc, Append(effects, "rpc"), body)

Swap_Sign ==
    /\ prog = "gasless-swap" /\ fpc = "sign"
    /\ ScriptStep("submit", loc, Append(effects, "signTypedData"), body)

\* Step 5: build the request, leave in a dry run, else POST /execute
Swap_Submit(rid, fails) ==
    /\ prog = "gasless-swap" /\ fpc = "submit"
    /\ LET executeBody == [built |-> TRUE,
                           authorizationList |-> loc.authorization,
                           subsidizeFees |-> FALSE,
                           requestId |-> loc.requestId]
       IN  IF DryRun(cfg)
           THEN ScriptStep("done", loc, effects, executeBody)
           ELSE ScriptStep(IF fails THEN "failed" ELSE "poll",
                           IF fails THEN loc
                           ELSE [loc EXCEPT !.requestId = rid],
                           Append(effects, "POST /execute"), executeBody)

\* Step 6: pollStatus returns or throws
Swap_Poll(fails) ==
    /\ prog = "gasless-swap" /\ fpc = "poll"
    /\ ScriptStep(IF fails THEN "failed" ELSE "done", loc,
                  Append(effects, "GET /intents/status"), body)

\* a script is started with some environment
InitScripts ==
    /\ PollersAbsent
    /\ BatchIdle
    /\ ExecIdle
    /\ prog \in {"gasless-4337", "gasless-swap"}
    /\ cfg \in [dryRunEnv : DryRunEnv, apiKey : BOOLEAN, privateKey : BOOLEAN]
    /\ fpc = "load"
    /\ loc = [NoLoc EXCEPT !.address = "eoa-a"]
    /\ effects = << >>
    /\ body = NoBody
    /\ ui = NoUi

QuoteRequestIds == {Undefined, "req-a"}

NextScripts ==
    \/ G4337_Load
    \/ \E fails \in BOOLEAN : G4337_Account(fails)
    \/ \E accountFunded, ownerFunded, fails \in BOOLEAN :
          G4337_Funding(accountFunded, ownerFunded, fails)
    \/ \E hasCalls, fails \in BOOLEAN, rid \in QuoteRequestIds :
          G4337_Quote(hasCalls, rid, fails)
    \/ G4337_Nonce
    \/ G4337_Sign
    \/ \E rid \in RequestIds, fails \in BOOLEAN : G4337_Submit(rid, fails)
    \/ \E fails \in BOOLEAN : G4337_Poll(fails)
    \/ Swap_Load
    \/ \E code \in Codes, fails \in BOOLEAN : Swap_GetCode(code, fails)
    \/ \E hasCalls, fails \in BOOLEAN, rid \in QuoteRequestIds :
          Swap_Quote(hasCalls, rid, fails)
    \/ \E fails \in BOOLEAN : Swap_Authorize(fails)
    \/ Swap_Seq
    \/ Swap_Sign
    \/ \E rid \in RequestIds, fails \in BOOLEAN : Swap_Submit(rid, fails)
    \/ \E fails \in BOOLEAN : Swap_Poll(fails)

SpecScripts == InitScripts /\ [][NextScripts]_vars


\* ------------------------------------------------------ scripts: claims
Issued(e) == e \in Range(effects)

\* C15: with DRY_RUN=true gasless-4337.ts never sends the USDC funding
\* transfer, never POSTs to /execute and never polls the status, with or
\* without an API key and whatever the balances are.
C15_DryRunSubmitsNothing ==
    (prog = "gasless-4337" /\ cfg.dryRunEnv = "true") =>
        /\ ~Issued("tx USDC transfer")
        /\ ~Issued("POST /execute")
        /\ ~Issued("GET /intents/status")

\* a dry run with an API key that found the smart account short of USDC and
\* the owner funded, fetched a real quote and built the request
C15_Witness ==
    /\ prog = "gasless-4337" /\ cfg.dryRunEnv = "true" /\ cfg.apiKey
    /\ fpc = "done"
    /\ body.built
    /\ effects = <<"rpc", "rpc", "rpc", "rpc", "POST /quote/v2", "rpc",
                   "sign userOp">>

\* C16 as stated: with DRY_RUN=true gasless-swap.ts issues no request to the
\* Relay API: neither /quote nor /execute nor status.
C16_Claim_DryRunNoApiCall ==
    (prog = "gasless-swap" /\ cfg.dryRunEnv = "true") =>
        /\ ~Issued("POST /quote")
        /\ ~Issued("POST /execute")
        /\ ~Issued("GET /intents/status")

\* C18 as stated: the /execute request body built by gasless-swap.ts carries
\* executionOptions.subsidizeFees = true.
C18_Claim_SubsidizeFeesTrue ==
    (prog = "gasless-swap" /\ body.built) => body.subsidizeFees


(***************************************************************************)
(* The OriginSub4337 component: delegation detection and runFlow.          *)
(***************************************************************************)
\* the delegation status a resolved getCode sets
DetectedStatus(code) ==
    IF code = "0x" THEN "not_delegated"
    ELSE IF code = "calibur" THEN "delegated"
    ELSE "wrong_delegation"

SignsAuthorization(delegation) == delegation # "delegated"

\* the effect's getCode resolves, or rejects and leaves the state alone
O_GetCodeSettles(fails) ==
    /\ prog = "OriginSub4337"
    /\ ui.pending # NoAddress
    /\ ui' = IF fails THEN [ui EXCEPT !.pending = NoAddress]
             ELSE [ui EXCEPT !.pending = NoAddress,
                             !.delegation = DetectedStatus(ui.code[ui.pending]),
                             !.detectedFor = ui.pending]
    /\ UNCHANGED <<prog, cfg, fpc, loc, effects, body, pollVars, batchVars,
                   execVars>>

\* the wallet connects another account: the effect is cleaned up and run
\* again for the new address
O_AccountChanged(a) ==
    /\ prog = "OriginSub4337"
    /\ a # ui.address
    /\ ui.switches < MaxSwitches
    /\ ui' = [ui EXCEPT !.address = a, !.pending = a, !.switches = @ + 1]
    /\ UNCHANGED <<prog, cfg, fpc, loc, effects, body, pollVars, batchVars,
                   execVars>>

\* the run button, enabled by canRun, starts runFlow
O_Click ==
    /\ prog = "OriginSub4337"
    /\ ~ui.running /\ ui.delegation # "checking"
    /\ ui.runs < MaxRuns
    /\ ui' = [ui EXCEPT !.running = TRUE, !.runs = @ + 1]
    /\ loc' = [address |-> ui.address,
               delegated |-> ~SignsAuthorization(ui.delegation),
               detected |-> ui.delegation = "delegated"
                              /\ ui.detectedFor = ui.address,
               authorization |-> FALSE, requestId |-> Undefined,
               calls |-> 0, got |-> {}, failed |-> "none"]
    /\ effects' = << >>
    /\ body' = NoBody
    /\ fpc' = "step1"
    /\ UNCHANGED <<prog, cfg, pollVars, batchVars, execVars>>

\* a stretch of runFlow; a throw runs catch and finally
FlowStep(pc2, loc2, eff2, body2) ==
    /\ fpc' = pc2
    /\ loc' = loc2
    /\ effects' = eff2
    /\ body' = body2
    /\ ui' = IF pc2 = "idle" THEN [ui EXCEPT !.running = FALSE] ELSE ui
    /\ UNCHANGED <<prog, cfg, pollVars, batchVars, execVars>>

\* Step 1: EIP-7702 authorization
O_Step1(fails) ==
    /\ prog = "OriginSub4337" /\ fpc = "step1"
    /\ IF loc.delegated
       THEN FlowStep("quote", loc, effects, body)
       ELSE FlowStep(IF fails THEN "idle" ELSE "quote",
                     IF fails THEN [loc EXCEPT !.failed = "authorization"]
                     ELSE [loc EXCEPT !.authorization = TRUE,
                                      !.got = @ \cup {"authorization"}],
                     Append(effects, "signAuthorization"), body)

\* Step 3: the quote's steps gave no call
NoCallsFoundNever(calls) == FALSE

NoCallsFound(calls) == calls = 0

\* Step 2 and 3: the quote, and the calls built from its items
O_Quote(calls, rid, fails) ==
    /\ prog = "OriginSub4337" /\ fpc = "quote"
    /\ FlowStep(IF fails \/ NoCallsFound(calls) THEN "idle" ELSE "nonce",
                IF fails THEN [loc EXCEPT !.failed = "quote"]
                ELSE [loc EXCEPT !.requestId = rid,
                                 !.calls = calls,
                                 !.got = @ \cup {"quote"},
                                 !.failed = IF NoCallsFound(calls)
                                            THEN "calls" ELSE @],
                Append(effects, "POST /quote"), body)

\* Step 4: the Calibur nonce is read only from a delegated EOA
O_Nonce ==
    /\ prog = "OriginSub4337" /\ fpc = "nonce"
    /\ FlowStep("sign", loc,
                IF loc.authorization THEN effects ELSE Append(effects, "rpc"),
                body)

\* Step 6: the wallet signs the batch, or the user declines
O_Sign(fails) ==
    /\ prog = "OriginSub4337" /\ fpc = "sign"
    /\ FlowStep(IF fails THEN "idle" ELSE "simulate",
                IF fails THEN [loc EXCEPT !.failed = "signature"]
                ELSE [loc EXCEPT !.got = @ \cup {"signature"}],
                Append(effects, "signTypedData"), body)

\* Step 9: simulation, only on a delegated EOA; its failure is logged
O_Simulate ==
    /\ prog = "OriginSub4337" /\ fpc = "simulate"
    /\ FlowStep("execute", loc,
                IF loc.authorization THEN effects ELSE Append(effects, "rpc"),
                body)

\* Step 10: POST /execute
O_Execute(rid, fails) ==
    /\ prog = "OriginSub4337" /\ fpc = "execute"
    /\ FlowStep(IF fails THEN "idle" ELSE "poll",
                IF fails THEN [loc EXCEPT !.failed = "execute"]
                ELSE [loc EXCEPT !.requestId =
                                     IF rid = Undefined THEN @ ELSE rid,
                                 !.got = @ \cup {"execute"}],
                Append(effects, "POST /execute"),
                [built |-> TRUE, authorizationList |-> loc.authorization,
                 subsidizeFees |-> TRUE, requestId |-> loc.requestId])

\* Step 11: pollStatus returns success or another terminal status, or throws
O_Poll(outcome) ==
    /\ prog = "OriginSub4337" /\ fpc = "poll"
    /\ fpc' = "idle"
    /\ effects' = Append(effects, "GET /intents/status")
    /\ ui' = IF outcome = "success"
             THEN [ui EXCEPT !.running = FALSE,
                             !.delegation = "delegated",
                             !.detectedFor = loc.address,
                             !.code[loc.address] =
                                 IF loc.authorization THEN "calibur" ELSE @]
             ELSE [ui EXCEPT !.running = FALSE]
    /\ loc' = IF outcome = "throws" THEN [loc EXCEPT !.failed = "poll"]
              ELSE loc
    /\ UNCHANGED <<prog, cfg, body, pollVars, batchVars, execVars>>

PollOutcomes == {"success", "failure", "throws"}

\* the component is mounted with an account connected
InitOrigin ==
    /\ PollersAbsent
    /\ BatchIdle
    /\ ExecIdle
    /\ prog = "OriginSub4337"
    /\ cfg = NoCfg
    /\ fpc = "idle"
    /\ loc = NoLoc
    /\ effects = << >>
    /\ body = NoBody
    /\ \E a \in EOAs, c \in [EOAs -> Codes] :
          ui = [NoUi EXCEPT !.address = a, !.pending = a, !.code = c]

NextOrigin ==
    \/ \E fails \in BOOLEAN : O_GetCodeSettles(fails)
    \/ \E a \in EOAs : O_AccountChanged(a)
    \/ O_Click
    \/ \E fails \in BOOLEAN : O_Step1(fails)
    \/ \E calls \in 0..MaxCalls, fails \in BOOLEAN, rid \in QuoteRequestIds :
          O_Quote(calls, rid, fails)
    \/ O_Nonce
    \/ \E fails \in BOOLEAN : O_Sign(fails)
    \/ O_Simulate
    \/ \E rid \in QuoteRequestIds, fails \in BOOLEAN : O_Execute(rid, fails)
    \/ \E outcome \in PollOutcomes : O_Poll(outcome)

\* both EIP-7702 flows and the ERC-4337 script
InitFlows == InitScripts \/ InitOrigin

NextFlows == NextScripts \/ NextOrigin

SpecFlows == InitFlows /\ [][NextFlows]_vars


\* ------------------------------------------------- EIP-7702 flows: claims
\* C17 as stated: in gasless-swap.ts and in runFlow the /execute request
\* carries an authorizationList if and only if the EOA of the flow was not
\* detected as delegated to Calibur when the flow started, and an
\* authorization signature is requested only in that case.
C17_Claim_AuthorizationIffNotDetected ==
    prog \in {"gasless-swap", "OriginSub4337"} =>
        /\ body.built => (body.authorizationList <=> ~loc.detected)
        /\ Issued("signAuthorization") => ~loc.detected


(***************************************************************************)
(* useRelayExecute.execute, driven by BridgeForm.  The quote is revealed   *)
(* as execute walks it: the number of steps at the click, a step when its  *)
(* turn comes, an item when the item loop reaches it.  Poller 1 is the     *)
(* pollStatus invocation of the execution.                                 *)
(***************************************************************************)
ByoMaxAttempts == 100
\* the default attempt count, cut down to the bound of the model
ExecAttempts == IF ByoMaxAttempts < MaxAttempts THEN ByoMaxAttempts
                ELSE MaxAttempts

StepKinds == {"signature", "transaction"}
StepRequestIds == {Undefined} \cup RequestIds

\* the items a step of either kind can hold
ItemsOf(k) ==
    IF k = "signature"
    THEN {[NoItem EXCEPT !.status = "complete"]}
           \cup {[NoItem EXCEPT !.sign = sg, !.hasPost = FALSE] :
                   sg \in BOOLEAN}
           \cup {[NoItem EXCEPT !.sign = TRUE, !.hasPost = TRUE,
                                !.postRid = r] : r \in StepRequestIds}
    ELSE {[NoItem EXCEPT !.status = "complete"]}
           \cup {[NoItem EXCEPT !.chainId = c] : c \in BOOLEAN}

\* prev.steps.map((s, i) => i === idx ? {...s, status} : s), idx from 0
SetStepAll(steps, idx, st) == [k \in DOMAIN steps |-> st]
SetStep(steps, idx, st) ==
    [k \in DOMAIN steps |-> IF k = idx + 1 THEN st ELSE steps[k]]

FindIndexNone(steps, st) == 0 - 1
\* prev.steps.findIndex((s) => s.status === st): from 0, -1 when none
FindIndex(steps, st) ==
    IF \E k \in DOMAIN steps : steps[k] = st
    THEN (CHOOSE k \in DOMAIN steps :
             /\ steps[k] = st
             /\ \A j \in 1..(k - 1) : steps[j] # st) - 1
    ELSE 0 - 1

\* a ?? b
Coalesce(a, b) == IF a # Undefined THEN a ELSE b

extractRequestId(item, stepRequestId) ==
    Coalesce(IF item.hasPost THEN item.postRid ELSE Undefined, stepRequestId)

\* if (requestId)
Truthy(rid) == rid # Undefined

LoopDoneEarly(si, n) == si >= 1 \/ si >= n
\* the step loop's test si < quote.steps.length has failed
LoopDone(si, n) == si >= n

FillSucceededOrRefunded(s) == s \in {"success", "refunded"}
FillSucceeded(s) == s = "success"

\* `Fill ${status}${details ? `: ${details}` : ""}`
FillError(s, details) ==
    IF details = Undefined THEN <<"Fill ", s>> ELSE <<"Fill ", s, ": ", details>>

\* err.message of what an operation throws
Thrown(op) ==
    CASE op = "sign" -> <<"User rejected the request">>
      [] op = "nosign" -> <<"Step item has no sign data">>
      [] op = "post" -> <<"Signature submission failed">>
      [] op = "switch" -> <<"User rejected the chain switch">>
      [] op = "send" -> <<"User rejected the transaction">>
      [] OTHER -> <<"Transaction receipt not found">>

CaughtStaysExecuting(message) ==
    [status |-> "executing", error |-> message,
     steps |-> SetStep(state.steps, FindIndex(state.steps, "active"), "error")]
\* the catch block
Caught(message) ==
    [status |-> "error", error |-> message,
     steps |-> SetStep(state.steps, FindIndex(state.steps, "active"), "error")]

PollerUntouched ==
    UNCHANGED <<pollVars, batchVars, flowVars>>

\* the operation execute starts next
Starts(op) == lastOp' = [op |-> op, si |-> exec.si, ii |-> exec.ii]

\* BridgeForm: button state
isFinished == state.status \in {"complete", "error"}
isExecutingNever == FALSE
isExecuting == state.status = "executing"
buttonDisabled(hasQuote) == ~hasQuote \/ isExecuting

\* the Sign & Bridge button, shown while nothing has finished and enabled
\* with a quote while nothing executes; execute throws at once without a
\* wallet client
E_Click(n, wallet, client) ==
    /\ ~isFinished
    /\ ~buttonDisabled(TRUE)
    /\ exec.run < MaxExecutions
    /\ IF ~wallet
       THEN /\ exec' = [exec EXCEPT !.pc = "idle"]
            /\ UNCHANGED <<state, lastOp>>
       ELSE /\ state' = [status |-> "executing",
                         steps |-> [k \in 1..(n + 1) |-> "pending"],
                         error |-> Null]
            /\ exec' = [NoExec EXCEPT !.pc = "step", !.run = exec.run + 1,
                                      !.n = n, !.publicClient = client]
            /\ lastOp' = NoOp
    /\ PollerUntouched

\* top of the step loop: the next step becomes active, or the fill step
E_StepBegin(k, rid, nItems) ==
    /\ exec.pc = "step"
    /\ IF LoopDone(exec.si, exec.n)
       THEN /\ state' = [state EXCEPT
                           !.steps = SetStep(@, Len(@) - 1, "active")]
            /\ exec' = [exec EXCEPT !.pc = "fill"]
       ELSE /\ state' = [state EXCEPT !.steps = SetStep(@, exec.si, "active")]
            /\ exec' = [exec EXCEPT !.pc = "item", !.kind = k,
                                    !.stepRid = rid, !.nItems = nItems,
                                    !.ii = 0, !.item = NoItem]
    /\ UNCHANGED lastOp
    /\ PollerUntouched

\* top of the item loop: the step is complete, or the next item is skipped
\* or its first operation is started
E_ItemBegin(item) ==
    /\ exec.pc = "item"
    /\ IF exec.ii >= exec.nItems
       THEN /\ state' = [state EXCEPT
                           !.steps = SetStep(@, exec.si, "complete")]
            /\ exec' = [exec EXCEPT !.pc = "step", !.si = @ + 1, !.ii = 0,
                                    !.item = NoItem]
            /\ UNCHANGED lastOp
       ELSE /\ item \in ItemsOf(exec.kind)
            /\ UNCHANGED state
            /\ IF item.status = "complete"
               THEN /\ exec' = [exec EXCEPT !.ii = @ + 1]
                    /\ UNCHANGED lastOp
               ELSE IF exec.kind = "signature"
               THEN /\ exec' = [exec EXCEPT !.pc = "signing", !.item = item]
                    /\ Starts("sign")
               ELSE IF item.chainId
               THEN /\ exec' = [exec EXCEPT !.pc = "switching",
                                            !.item = item]
                    /\ Starts("switch")
               ELSE /\ exec' = [exec EXCEPT !.pc = "sending", !.item = item]
                    /\ Starts("send")
    /\ PollerUntouched

\* the item is done: on to the next one
ItemDone(rid) ==
    [exec EXCEPT !.pc = "item", !.ii = @ + 1, !.item = NoItem,
                 !.requestId = rid]

Throws(message) ==
    /\ state' = Caught(message)
    /\ exec' = [exec EXCEPT !.pc = "done"]
    /\ UNCHANGED lastOp

\* signStepItem settles
E_Signed(ok) ==
    /\ exec.pc = "signing"
    /\ IF ~exec.item.sign
       THEN Throws(Thrown("nosign"))
       ELSE IF ~ok
       THEN Throws(Thrown("sign"))
       ELSE IF exec.item.hasPost
       THEN /\ exec' = [exec EXCEPT !.pc = "posting"]
            /\ Starts("post")
            /\ UNCHANGED state
       ELSE /\ exec' = ItemDone(Coalesce(extractRequestId(exec.item,
                                                          exec.stepRid),
                                         exec.requestId))
            /\ UNCHANGED <<state, lastOp>>
    /\ PollerUntouched

\* postSignature settles
E_Posted(ok) ==
    /\ exec.pc = "posting"
    /\ IF ~ok
       THEN Throws(Thrown("post"))
       ELSE /\ exec' = ItemDone(Coalesce(extractRequestId(exec.item,
                                                          exec.stepRid),
                                         exec.requestId))
            /\ UNCHANGED <<state, lastOp>>
    /\ PollerUntouched

\* switchChainAsync settles
E_Switched(ok) ==
    /\ exec.pc = "switching"
    /\ IF ~ok
       THEN Throws(Thrown("switch"))
       ELSE /\ exec' = [exec EXCEPT !.pc = "sending"]
            /\ Starts("send")
            /\ UNCHANGED state
    /\ PollerUntouched

\* sendTransaction settles
E_Sent(ok) ==
    /\ exec.pc = "sending"
    /\ IF ~ok
       THEN Throws(Thrown("send"))
       ELSE IF exec.publicClient
       THEN /\ exec' = [exec EXCEPT !.pc = "waiting"]
            /\ Starts("wait")
            /\ UNCHANGED state
       ELSE /\ exec' = ItemDone(Coalesce(exec.stepRid, exec.requestId))
            /\ UNCHANGED <<state, lastOp>>
    /\ PollerUntouched

\* waitForTransactionReceipt settles
E_Receipt(ok) ==
    /\ exec.pc = "waiting"
    /\ IF ~ok
       THEN Throws(Thrown("wait"))
       ELSE /\ exec' = ItemDone(Coalesce(exec.stepRid, exec.requestId))
            /\ UNCHANGED <<state, lastOp>>
    /\ PollerUntouched

\* after the loop: pollStatus(requestId, onUpdate) is called, or the
\* execution is complete without a requestId
E_Fill ==
    /\ exec.pc = "fill"
    /\ IF Truthy(exec.requestId)
       THEN /\ exec' = [exec EXCEPT !.pc = "polling"]
            /\ Starts("poll")
            /\ requestId' = [requestId EXCEPT ![1] = exec.requestId]
            /\ pc' = [pc EXCEPT ![1] = "idle"]
            /\ UNCHANGED state
       ELSE /\ state' = [state EXCEPT
                           !.status = "complete",
                           !.steps = SetStep(@, Len(@) - 1, "complete")]
            /\ exec' = [exec EXCEPT !.pc = "done"]
            /\ UNCHANGED <<lastOp, requestId, pc>>
    /\ UNCHANGED <<kind, maxAttempts, intervalMs, hasOnUpdate, i, status,
                   fetches, fetchedIds, prior, cbLog, cbThrew, sleeps,
                   sleepReq, result, error>>
    /\ UNCHANGED <<batchVars, flowVars>>

\* pollStatus has returned finalStatus, with or without details
E_PollReturned(details) ==
    /\ exec.pc = "polling"
    /\ pc[1] = "returned"
    /\ state' = IF FillSucceeded(result[1].status)
                THEN [state EXCEPT
                        !.status = "complete",
                        !.steps = SetStep(@, Len(@) - 1, "complete")]
                ELSE [state EXCEPT
                        !.status = "error",
                        !.error = FillError(result[1].status, details),
                        !.steps = SetStep(@, Len(@) - 1, "error")]
    /\ exec' = [exec EXCEPT !.pc = "done"]
    /\ UNCHANGED lastOp
    /\ PollerUntouched

\* pollStatus has thrown
E_PollThrew ==
    /\ exec.pc = "polling"
    /\ pc[1] = "thrown"
    /\ Throws(error[1].msg)
    /\ PollerUntouched

\* the Bridge Again / Try Again button: reset()
E_Reset ==
    /\ isFinished
    /\ state' = INITIAL_STATE
    /\ exec' = [NoExec EXCEPT !.pc = "idle", !.run = exec.run]
    /\ lastOp' = NoOp
    /\ pc' = [pc EXCEPT ![1] = "absent"]
    /\ i' = Fresh(0)
    /\ status' = Fresh(NoResponse)
    /\ fetches' = Fresh(0)
    /\ fetchedIds' = Fresh({})
    /\ prior' = Fresh({})
    /\ cbLog' = Fresh(<< >>)
    /\ cbThrew' = Fresh(FALSE)
    /\ sleeps' = Fresh(0)
    /\ sleepReq' = Fresh({})
    /\ result' = Fresh(NoResponse)
    /\ error' = Fresh(NoError)
    /\ UNCHANGED <<params, batchVars, flowVars>>

Details == {Undefined, "relayer out of funds"}

\* BridgeForm is mounted; the poller an execution will use takes the
\* defaults of pollStatus and the setState callback
InitExec ==
    /\ kind = Fresh("byo")
    /\ requestId = Fresh(Undefined)
    /\ maxAttempts = Fresh(ExecAttempts)
    /\ intervalMs = Fresh(ByoIntervalMs)
    /\ hasOnUpdate = Fresh(TRUE)
    /\ pc = Fresh("absent")
    /\ InitRun
    /\ BatchIdle
    /\ FlowIdle
    /\ ExecIdle

NextExec ==
    \/ \E n \in 0..MaxSteps, wallet, client \in BOOLEAN :
          E_Click(n, wallet, client)
    \/ \E k \in StepKinds, rid \in StepRequestIds, nItems \in 0..MaxItems :
          E_StepBegin(k, rid, nItems)
    \/ \E item \in ItemsOf("signature") \cup ItemsOf("transaction") :
          E_ItemBegin(item)
    \/ \E ok \in BOOLEAN : E_Signed(ok)
    \/ \E ok \in BOOLEAN : E_Posted(ok)
    \/ \E ok \in BOOLEAN : E_Switched(ok)
    \/ \E ok \in BOOLEAN : E_Sent(ok)
    \/ \E ok \in BOOLEAN : E_Receipt(ok)
    \/ E_Fill
    \/ Invoke(1)
    \/ \E resp \in Responses : PollSettle(1, resp, FALSE)
    \/ TimerFires(1)
    \/ \E details \in Details : E_PollReturned(details)
    \/ E_PollThrew
    \/ E_Reset

SpecExec == InitExec /\ [][NextExec]_vars

\* what happens without the user: the continuations of execute and of its
\* pollStatus, run by the event loop once the awaited call has settled or
\* the timer has expired
ExecContinues ==
    \/ \E k \in StepKinds, rid \in StepRequestIds, nItems \in 0..MaxItems :
          E_StepBegin(k, rid, nItems)
    \/ \E item \in ItemsOf("signature") \cup ItemsOf("transaction") :
          E_ItemBegin(item)
    \/ \E ok \in BOOLEAN : E_Signed(ok)
    \/ \E ok \in BOOLEAN : E_Posted(ok)
    \/ \E ok \in BOOLEAN : E_Switched(ok)
    \/ \E ok \in BOOLEAN : E_Sent(ok)
    \/ \E ok \in BOOLEAN : E_Receipt(ok)
    \/ E_Fill
    \/ Invoke(1)
    \/ \E resp \in Responses : PollSettle(1, resp, FALSE)
    \/ TimerFires(1)
    \/ \E details \in Details : E_PollReturned(details)
    \/ E_PollThrew

\* executions up to the first that ends: reset() restores INITIAL_STATE and
\* the next execute gets a fresh pollStatus, so a later execution repeats
\* the first
NextExecOnce ==
    \/ \E n \in 0..MaxSteps, wallet, client \in BOOLEAN :
          E_Click(n, wallet, client)
    \/ ExecContinues

\* every wallet, RPC and HTTP call eventually returns or fails, and every
\* timer expires
SpecExecLive ==
    InitExec /\ [][NextExecOnce]_vars /\ WF_vars(ExecContinues)


\* ---------------------------------------------- useRelayExecute: claims
\* the last status handed to onUpdate, null before the first
fillStatus == IF cbLog[1] = << >> THEN "null" ELSE cbLog[1][Len(cbLog[1])]

QuoteSteps == 1..exec.n
FillStep == exec.n + 1
StepsProcessed == \A k \in QuoteSteps : state.steps[k] = "complete"
Finished == exec.pc = "done"

\* place of an operation within its item
Rank(op) ==
    CASE op \in {"sign", "switch", "poll"} -> 1
      [] op \in {"post", "send"} -> 2
      [] op = "wait" -> 3
      [] OTHER -> 0

\* a comes before b in quote order
Earlier(a, b) ==
    \/ a.si < b.si
    \/ a.si = b.si /\ a.ii < b.ii
    \/ a.si = b.si /\ a.ii = b.ii /\ Rank(a.op) < Rank(b.op)

C11_PollAfterSteps ==
    (pc[1] # "absent" \/ fetches[1] > 0) =>
        /\ StepsProcessed
        /\ lastOp.op = "poll"

C11_OperationOrder ==
    [][(lastOp' # lastOp /\ lastOp' # NoOp) =>
         /\ Earlier(lastOp, lastOp')
         /\ lastOp'.op = "post" =>
              lastOp = [op |-> "sign", si |-> lastOp'.si, ii |-> lastOp'.ii]
         /\ lastOp'.op = "wait" =>
              lastOp = [op |-> "send", si |-> lastOp'.si, ii |-> lastOp'.ii]
         /\ lastOp.op = "switch" =>
              lastOp' = [op |-> "send", si |-> lastOp.si, ii |-> lastOp.ii]
         /\ \A k \in 1..lastOp'.si : state.steps[k] = "complete"
         /\ lastOp'.op = "poll" => lastOp'.si = exec.n
         /\ lastOp.op # "poll"]_vars

\* C11: execute starts its operations in quote order: step by step, item by
\* item, within an item the signature before its POST (and chain switch,
\* transaction and receipt in that order); an operation of a later step
\* starts only when every earlier step is complete, and pollStatus is called,
\* and a status fetched, only after all steps of the quote are complete.
C11_SignPostPoll == []C11_PollAfterSteps /\ C11_OperationOrder

\* the status poll of a quote with two steps is fetching
C11_Witness ==
    /\ exec.n = 2
    /\ lastOp = [op |-> "poll", si |-> 2, ii |-> 0]
    /\ pc[1] = "fetch"
    /\ StepsProcessed

\* C19: once the steps are processed, an execution that obtained a requestId
\* ends 'complete' with the fill step complete exactly when pollStatus
\* returned 'success'; when it returned another terminal status it ends
\* 'error' with the text 'Fill <status>' (plus ': <details>' if any) and the
\* fill step 'error'; without a requestId it ends 'complete' and no status
\* is ever fetched.
C19_FinalOutcome ==
    /\ (Finished /\ Truthy(exec.requestId)) =>
         /\ state.status = "complete" <=>
              (pc[1] = "returned" /\ result[1].status = "success")
         /\ state.status = "complete" => state.steps[FillStep] = "complete"
         /\ (pc[1] = "returned" /\ result[1].status # "success") =>
              /\ state.status = "error"
              /\ state.steps[FillStep] = "error"
              /\ Len(state.error) >= 2
              /\ state.error[1] = "Fill "
              /\ state.error[2] = result[1].status
    /\ (Finished /\ StepsProcessed /\ ~Truthy(exec.requestId)) =>
         /\ state.status = "complete"
         /\ state.steps[FillStep] = "complete"
    /\ ~Truthy(exec.requestId) => (fetches[1] = 0 /\ pc[1] = "absent")

\* the poller returned 'refunded' after a first non-terminal answer
C19_Witness ==
    /\ Finished
    /\ Truthy(exec.requestId)
    /\ fetches[1] = 2
    /\ result[1].status = "refunded"
    /\ state.status = "error"
    /\ state.error = <<"Fill ", "refunded">>
    /\ state.steps[FillStep] = "error"

\* C20: during and after an execution the step list has quote.steps.length
\* + 1 entries, at most one of them is 'active', and around an 'active' or
\* 'error' entry every earlier entry is 'complete' and every later one
\* 'pending'.
C20_ProgressSteps ==
    state.status # "idle" =>
        /\ Len(state.steps) = exec.n + 1
        /\ Cardinality({k \in DOMAIN state.steps :
                           state.steps[k] = "active"}) <= 1
        /\ \A k \in DOMAIN state.steps :
             state.steps[k] \in {"active", "error"} =>
                /\ \A j \in 1..(k - 1) : state.steps[j] = "complete"
                /\ \A j \in (k + 1)..Len(state.steps) :
                       state.steps[j] = "pending"

\* the second of two steps has failed
C20_Witness ==
    /\ state.status = "error"
    /\ exec.n = 2
    /\ state.steps = <<"complete", "error", "pending">>


\* execute is awaiting a wallet, RPC or Relay operation of a step
AwaitingStepOp ==
    exec.pc \in {"signing", "posting", "switching", "sending", "waiting"}

\* the awaited operation throws in this step: a step operation fails, or
\* pollStatus has thrown (failed status request or timeout) and execute
\* takes the exception
OperationThrows ==
    /\ exec'.pc = "done"
    /\ \/ AwaitingStepOp
       \/ exec.pc = "polling" /\ pc[1] = "thrown"

\* err.message of the exception taken
ThrownMessage ==
    IF exec.pc = "polling" THEN error[1].msg
    ELSE IF exec.pc = "signing" /\ ~exec.item.sign
    THEN <<"Step item has no sign data">>
    ELSE Thrown(lastOp.op)

C21_ErrorState ==
    [][OperationThrows =>
         /\ state'.status = "error"
         /\ state'.error = ThrownMessage
         /\ state.steps[lastOp.si + 1] = "active"
         /\ state'.steps = [state.steps EXCEPT ![lastOp.si + 1] = "error"]
         /\ \A k \in 1..lastOp.si : state'.steps[k] = "complete"
         /\ lastOp' = lastOp]_vars

C21_NothingLater ==
    [][exec.pc = "done" =>
         /\ lastOp' \in {lastOp, NoOp}
         /\ fetches'[1] <= fetches[1]
         /\ exec'.pc \in {"done", "idle"}
         /\ exec'.pc = "done" => state' = state]_vars

C21_NoPollAfterStepError ==
    (Finished /\ state.status = "error" /\ lastOp.op # "poll") =>
        /\ pc[1] = "absent" /\ fetches[1] = 0
        /\ \A k \in (lastOp.si + 2)..Len(state.steps) :
               state.steps[k] = "pending"

\* C21: when an awaited operation of an execution throws (signing, posting,
\* chain switch, sending, receipt, a status request or the poll timeout),
\* the execution ends with status 'error' and the thrown message as error,
\* the step that was active becomes 'error' and no other step changes (the
\* earlier ones stay 'complete', the later ones 'pending'), and afterwards no
\* operation, step or status fetch is started until reset.
C21_ThrowEndsInError ==
    []C21_NoPollAfterStepError /\ C21_ErrorState /\ C21_NothingLater

\* the poll of a two-step quote timed out
C21_Witness ==
    /\ Finished
    /\ exec.n = 2
    /\ pc[1] = "thrown" /\ error[1].type = "timeout"
    /\ state.status = "error"
    /\ state.error = error[1].msg
    /\ state.steps = <<"complete", "complete", "error">>


C22_BoundedPolling ==
    /\ fetches[1] <= maxAttempts[1]
    /\ (exec.pc = "polling" /\ pc[1] = "thrown" /\ error[1].type = "timeout")
         => fetches[1] = maxAttempts[1]

C22_LeavesExecuting ==
    (state.status = "executing") ~> (state.status \in {"complete", "error"})

C22_TimeoutEnds ==
    (exec.pc = "polling" /\ fetches[1] = maxAttempts[1] /\ pc[1] = "sleep")
      ~> (state.status = "error" /\ error[1].type = "timeout")

\* C22: provided every awaited call settles and every timer expires, an
\* execution that has entered 'executing' eventually is 'complete' or
\* 'error'; pollStatus fetches at most maxAttempts times, and a fill whose
\* last permitted answer is still not terminal ends in 'error' by the poll
\* timeout.
C22_ExecuteTerminates ==
    []C22_BoundedPolling /\ C22_LeavesExecuting /\ C22_TimeoutEnds

\* every permitted status request was answered 'pending' and the execution
\* of a one-step quote has ended in the timeout error
C22_Witness ==
    /\ Finished
    /\ exec.n = 1
    /\ fetches[1] = maxAttempts[1]
    /\ status[1].status = "pending" /\ prior[1] \subseteq {"pending"}
    /\ error[1].type = "timeout"
    /\ state.status = "error"


StatusMoves ==
    {<<"idle", "executing">>, <<"executing", "complete">>,
     <<"executing", "error">>, <<"complete", "idle">>, <<"error", "idle">>}

\* an execution has been started and its last continuation has not run yet
InFlight == exec.pc \notin {"none", "idle", "done"}

C23_StatusMoves ==
    [][state'.status # state.status =>
         /\ <<state.status, state'.status>> \in StatusMoves
         /\ state'.status = "executing" <=> exec'.run = exec.run + 1
         /\ state'.status = "idle" => state' = INITIAL_STATE]_vars

C23_ButtonsOff ==
    [][/\ exec'.run # exec.run =>
            (state.status = "idle" /\ ~InFlight
               /\ state'.status = "executing")
       /\ (state' = INITIAL_STATE /\ state # INITIAL_STATE) =>
            (state.status \in {"complete", "error"} /\ ~InFlight)]_vars

C23_OneInFlight ==
    /\ InFlight <=> state.status = "executing"
    /\ exec.pc = "done" <=> state.status \in {"complete", "error"}

\* C23: status changes only idle -> executing (execute), executing ->
\* complete, executing -> error and complete/error -> idle (reset); an
\* execution is started only from 'idle' and reset happens only from
\* 'complete' or 'error', never while an execution is in flight, so that
\* 'executing' holds exactly while the one execution is in flight.
C23_StatusTransitions ==
    []C23_OneInFlight /\ C23_StatusMoves /\ C23_ButtonsOff

\* after one execution and a reset the second execution is in flight
C23_Witness ==
    /\ exec.run = 2
    /\ state.status = "executing"
    /\ InFlight

\* -------------------------------------------------------------------- C24
\* where in the run's log an effect stands, 0 when it was not produced
Position(e) ==
    IF Issued(e) THEN CHOOSE at \in 1..Len(effects) : effects[at] = e ELSE 0

Times(e) == Cardinality({at \in 1..Len(effects) : effects[at] = e})

\* the steps whose failure the flow must not survive
BeforeExecute == {"authorization", "quote", "calls", "signature"}

\* /execute goes out only with a quote, at least one call and the batch
\* signature in hand, and after the requests that produced them
C24_ExecuteAfterSigning ==
    (prog = "OriginSub4337" /\ Issued("POST /execute")) =>
        /\ {"quote", "signature"} \subseteq loc.got
        /\ loc.calls >= 1
        /\ loc.delegated \/ "authorization" \in loc.got
        /\ 0 < Position("POST /quote")
        /\ Position("POST /quote") < Position("signTypedData")
        /\ Position("signTypedData") < Position("POST /execute")
        /\ Times("POST /execute") = 1

\* polling starts only once /execute has returned
C24_PollAfterExecute ==
    (prog = "OriginSub4337" /\ Issued("GET /intents/status")) =>
        /\ "execute" \in loc.got
        /\ 0 < Position("POST /execute")
        /\ Position("POST /execute") < Position("GET /intents/status")

\* a run that failed before Step 10 has sent no /execute
C24_FailedSendsNothing ==
    (prog = "OriginSub4337" /\ loc.failed \in BeforeExecute) =>
        /\ ~Issued("POST /execute")
        /\ ~Issued("GET /intents/status")
        /\ body = NoBody
        /\ fpc = "idle"

\* and sends none later: a run that threw produces no further effect
C24_FailedRunIsOver ==
    [][(prog = "OriginSub4337" /\ loc.failed # "none" /\ ui'.runs = ui.runs)
          => (effects' = effects /\ loc' = loc /\ body' = body)]_vars

\* C24: runFlow submits /execute only after a quote was received, at least
\* one call was built from it and the EIP-712 batch signature was obtained;
\* it starts polling only after /execute returned; and when the
\* authorization signing, the quote, the call extraction or the batch
\* signing fails, no /execute request is ever sent.
C24_RunFlowOrder ==
    /\ [](C24_ExecuteAfterSigning /\ C24_PollAfterExecute
            /\ C24_FailedSendsNothing)
    /\ C24_FailedRunIsOver

\* a second run went through every step up to polling, after a first run
\* was abandoned
C24_Witness ==
    /\ prog = "OriginSub4337" /\ ui.runs = 2
    /\ Issued("signAuthorization")
    /\ Issued("GET /intents/status")
    /\ loc.calls >= 1 /\ loc.failed = "none"

====
